---- MODULE Spec2Model ----
(***************************************************************************)
(* Model of rlbench.logger.Logger (src/rlbench/logger.py) and the helpers  *)
(* of src/rlbench/utils.py it uses.  One Logger instance, one run          *)
(* directory, one remote (wandb) session.                                  *)
(*                                                                         *)
(* Python values are encoded as follows.                                   *)
(*   Optional[T]   None is << >>, a present value x is <<x>>.              *)
(*   dict          a function whose domain is the key set.                 *)
(*   list          a sequence.                                             *)
(*   text file     the sequence of its lines (the text is the lines joined *)
(*                 by "\n"); a CSV line is the sequence of its fields (the *)
(*                 line is the fields joined by ",").                      *)
(*   exception     the name of the exception class in last.err, "ok" when  *)
(*                 the call returned.                                      *)
(***************************************************************************)
EXTENDS Integers, Sequences, FiniteSets, TLC

(***************************************************************************)
(* Bounds of the model.                                                    *)
(***************************************************************************)
\* Most calls of log, log_summary, log_file and finish made on the logger.
MaxCalls == 2
\* Longest run of consecutive, equal log_binned calls that pass its checks.
MaxStreak == 3

(***************************************************************************)
(* Input domains.                                                          *)
(***************************************************************************)
\* Group names in the insertion order of the metrics mapping.
GroupOrder == <<"train", "eval">>
GroupNames == {GroupOrder[i] : i \in DOMAIN GroupOrder}
StepNames == {"step"}
MetricNames == {"m1", "loss"}
Keys == StepNames \cup MetricNames
\* Values a caller logs: v for the step metric, and a value of its own per
\* metric name, so that no two columns of a record hold the same value.
Versions == {1, 2}
ValueOf(k, v) == CASE k = "m1" -> v + 10 [] k = "loss" -> v + 20 [] OTHER -> v
BinSizes == {3}
LogModes == {"disabled", "wandb", "local", "bogus"}
WandbModes == {"online", "bogus"}
\* Source paths given to log_file, and the content of the files there.
FilePaths == {"a/x.txt", "b/x.txt", "a/gone.txt"}
SourceFiles == ("a/x.txt" :> "A") @@ ("b/x.txt" :> "B")

(***************************************************************************)
(* Python helpers.                                                         *)
(***************************************************************************)
None == << >>
Some(x) == <<x>>
EmptyDict == [k \in {} |-> 0]

SeqToSet(s) == {s[i] : i \in DOMAIN s}

\* list(some_set): the elements once each, in an order the hash seed decides.
ListsOfSet(S) ==
    {s \in [1..Cardinality(S) -> S] : SeqToSet(s) = S}

\* The sub-list of GroupOrder holding the groups of G.
RECURSIVE OrderedGroups(_, _)
OrderedGroups(G, i) ==
    IF i > Len(GroupOrder) THEN << >>
    ELSE (IF GroupOrder[i] \in G THEN <<GroupOrder[i]>> ELSE << >>)
         \o OrderedGroups(G, i + 1)

\* str(v) of an int: its decimal digits.
Str(v) == ToString(v)

\* os.path.basename
Basename(path) ==
    CASE path = "a/x.txt" -> "x.txt"
      [] path = "b/x.txt" -> "x.txt"
      [] path = "a/gone.txt" -> "gone.txt"

\* Records (dicts from metric name to value) a caller passes to log.
Records == {[k \in K |-> ValueOf(k, v)] : K \in SUBSET Keys, v \in Versions}

\* Records a caller passes to log_binned: one value for every key.
BinnedRecords == {[k \in K |-> v] : K \in SUBSET MetricNames, v \in Versions}

\* The metrics mappings a caller passes: group -> (step metric, metric list).
MetricsInputs ==
    { "train" :> [step |-> "step", list |-> <<"m1", "loss">>],
      "train" :> [step |-> "step", list |-> <<"step">>],
      ("train" :> [step |-> "step", list |-> <<"m1", "step", "m1">>])
         @@ ("eval" :> [step |-> "step", list |-> <<"loss", "loss">>]),
      ("train" :> [step |-> "step", list |-> <<"m1">>])
         @@ ("eval" :> [step |-> "step", list |-> << >>]) }

\* The bin_size arguments a caller passes.
BinSizeInputs ==
    {[kind |-> "none", val |-> 0], [kind |-> "other", val |-> 0]}
    \cup {[kind |-> "int", val |-> b] : b \in BinSizes}
    \cup {[kind |-> "dict", val |-> [g \in G |-> b]] :
            G \in SUBSET GroupNames, b \in BinSizes}

(***************************************************************************)
(* State.                                                                  *)
(***************************************************************************)
VARIABLES
    phase,            \* "new": not constructed, "live": __init__ returned,
                      \* "failed": __init__ raised
    log_mode,         \* self._log_mode
    is_enabled,       \* self._is_enabled
    metric_groups,    \* self._metric_groups
    step_metrics,     \* self._step_metrics
    metrics,          \* self._metrics
    summary,          \* self._summary
    bin_size,         \* self._bin_size
    metric_roll_avg,  \* self._metric_roll_avg
    metric_n,         \* self._metric_n
    is_finished,      \* self._is_finished
    metrics_files,    \* self._metrics_files: group -> "open" | "closed"
    dirs,             \* directories of the run directory tree
    root_files,       \* config.json, metadata.json when written
    status_txt,       \* Optional content of status.txt
    summary_json,     \* Optional content of summary.json
    csv,              \* metrics/<group>.csv: group -> lines
    files_dir,        \* the files directory: basename -> content
    wandb_run,        \* the remote session
    last,             \* the last call and how it ended
    logged,           \* observer: group -> records of the local log calls that returned
    finish_runs,      \* observer: times finish() ran its steps to the end
    streak,           \* observer: run of equal log_binned calls that passed the checks
    ncalls            \* observer: calls of log, log_summary, log_file, finish made

objVars == <<log_mode, is_enabled, metric_groups, step_metrics, metrics, summary,
             bin_size, metric_roll_avg, metric_n, is_finished, metrics_files>>
fsVars == <<dirs, root_files, status_txt, summary_json, csv, files_dir>>
obsVars == <<logged, finish_runs, streak, ncalls>>
vars == <<phase, objVars, fsVars, wandb_run, last, obsVars>>

NoRun == [active |-> FALSE, defined |-> {}, logged |-> 0, saved |-> {},
          finished |-> FALSE]
NoStreak == [group |-> "", d |-> EmptyDict, n |-> 0, logs |-> 0]

\* What the observer keeps of a call: the operation, how it ended, and of its
\* arguments the group, check_keys, the path, and what the record held.
Call(op, err, group, check_keys, has_step, extra, path) ==
    [op |-> op, err |-> err, group |-> group, check_keys |-> check_keys,
     has_step |-> has_step, extra |-> extra, path |-> path]
InitCall(err) == Call("init", err, "", FALSE, FALSE, FALSE, "")

Init ==
    /\ phase = "new"
    /\ log_mode = "disabled"
    /\ is_enabled = FALSE
    /\ metric_groups = << >>
    /\ step_metrics = EmptyDict
    /\ metrics = EmptyDict
    /\ summary = None
    /\ bin_size = None
    /\ metric_roll_avg = None
    /\ metric_n = None
    /\ is_finished = FALSE
    /\ metrics_files = None
    /\ dirs = {}
    /\ root_files = {}
    /\ status_txt = None
    /\ summary_json = None
    /\ csv = EmptyDict
    /\ files_dir = EmptyDict
    /\ wandb_run = NoRun
    /\ last = Call("none", "ok", "", FALSE, FALSE, FALSE, "")
    /\ logged = EmptyDict
    /\ finish_runs = 0
    /\ streak = NoStreak
    /\ ncalls = 0

(***************************************************************************)
(* Logger.__init__ and the setup it runs.                                  *)
(***************************************************************************)
\* __init__, METRICS: the groups of the mapping, in its insertion order.
InitMetricGroups(metrics_in) == OrderedGroups(DOMAIN metrics_in, 1)

\* __init__, METRICS: each group's step metric.
InitStepMetrics(metrics_in) == [g \in DOMAIN metrics_in |-> metrics_in[g].step]

\* __init__, METRICS: the metric set of a group, repeats and the step metric removed.
InitMetricSet(metrics_in, g) == SeqToSet(metrics_in[g].list) \ {metrics_in[g].step}

\* __init__, METRICS: the values self._metrics can take (one per order of each set).
InitMetrics(metrics_in) ==
    {ms \in [DOMAIN metrics_in -> UNION {ListsOfSet(S) : S \in SUBSET Keys}] :
        \A g \in DOMAIN metrics_in : SeqToSet(ms[g]) = InitMetricSet(metrics_in, g)}

\* __init__, SUMMARY: every metric and the step metric of every group set to None.
InitSummary(ms, steps) ==
    [g \in DOMAIN ms |-> [k \in SeqToSet(ms[g]) \cup {steps[g]} |-> None]]

\* __init__, BINNING: self._bin_size.
InitBinSize(bin_in, groups) ==
    CASE bin_in.kind = "none" -> None
      [] bin_in.kind = "int" -> Some([g \in groups |-> bin_in.val])
      [] bin_in.kind = "dict" -> Some(bin_in.val)
      [] OTHER -> None

\* __init__: the exception its argument checks raise, in the order of the code.
InitArgError(lm, wm, is_sub, has_sub, bin_in, groups) ==
    CASE lm \notin {"disabled", "wandb", "local"} -> "ValueError"
      [] is_sub /\ has_sub -> "ValueError"
      [] wm \notin {"online", "local", "disabled"} -> "ValueError"
      [] bin_in.kind = "dict" /\ DOMAIN bin_in.val # groups -> "ValueError"
      [] bin_in.kind = "other" -> "TypeError"
      [] OTHER -> "ok"

\* _setup, BINNING: self._metric_roll_avg, a dict metric -> 0 for every group.
SetupRollAvg(ms) == [g \in DOMAIN ms |-> [m \in SeqToSet(ms[g]) |-> <<0, 1>>]]

\* _setup, BINNING: self._metric_n, which is a dict metric -> 0 for every group too.
SetupMetricN(ms) ==
    [g \in DOMAIN ms |-> [kind |-> "dict", items |-> [m \in SeqToSet(ms[g]) |-> 0], val |-> 0]]

\* _setup_local, METRICS: the header line of a group's file.
Header(ms, steps, g) == <<steps[g]>> \o ms[g]

\* _setup_local, METRICS: index of the first group with no metric, 0 when none.
FirstEmptyGroup(groups, ms) ==
    IF \E i \in DOMAIN groups : Len(ms[groups[i]]) = 0
    THEN CHOOSE i \in DOMAIN groups :
            /\ Len(ms[groups[i]]) = 0
            /\ \A j \in 1..(i - 1) : Len(ms[groups[j]]) # 0
    ELSE 0

\* _setup_local, METRICS: the files the loop has made when it ends or raises.
SetupCsv(groups, ms, steps) ==
    LET k == FirstEmptyGroup(groups, ms)
        made == IF k = 0 THEN SeqToSet(groups) ELSE {groups[i] : i \in 1..k}
    IN [g \in made |-> IF Len(ms[g]) = 0 THEN << >> ELSE <<Header(ms, steps, g)>>]

\* _setup_wandb, SETUP METRICS: the metrics in the order the loops visit them.
RECURSIVE AllMetrics(_, _, _)
AllMetrics(groups, ms, i) ==
    IF i > Len(groups) THEN << >>
    ELSE ms[groups[i]] \o AllMetrics(groups, ms, i + 1)

\* _setup_wandb: "for name, step_metric in metrics_arr" unpacks each metric
\* name, a string, into two: index of the first one that is not two characters
\* long, 0 when none.
FirstBadUnpack(all) ==
    IF \E i \in DOMAIN all : Len(all[i]) # 2
    THEN CHOOSE i \in DOMAIN all :
            /\ Len(all[i]) # 2
            /\ \A j \in 1..(i - 1) : Len(all[j]) = 2
    ELSE 0

\* __init__ raised: no instance exists; what setup did to the outside stays.
InitRaised(err) ==
    /\ phase' = "failed"
    /\ log_mode' = "disabled"
    /\ is_enabled' = FALSE
    /\ metric_groups' = << >>
    /\ step_metrics' = EmptyDict
    /\ metrics' = EmptyDict
    /\ summary' = None
    /\ bin_size' = None
    /\ metric_roll_avg' = None
    /\ metric_n' = None
    /\ is_finished' = FALSE
    /\ metrics_files' = None
    /\ last' = InitCall(err)
    /\ UNCHANGED obsVars

\* __init__ returned with these fields.
InitReturned(lm, groups, steps, ms, bin, files) ==
    /\ phase' = "live"
    /\ log_mode' = lm
    /\ is_enabled' = (lm # "disabled")
    /\ metric_groups' = groups
    /\ step_metrics' = steps
    /\ metrics' = ms
    /\ summary' = IF lm = "local" THEN Some(InitSummary(ms, steps)) ELSE None
    /\ bin_size' = bin
    /\ metric_roll_avg' = IF lm # "disabled" /\ bin # None THEN Some(SetupRollAvg(ms)) ELSE None
    /\ metric_n' = IF lm # "disabled" /\ bin # None THEN Some(SetupMetricN(ms)) ELSE None
    /\ is_finished' = FALSE
    /\ metrics_files' = files
    /\ last' = InitCall("ok")
    /\ logged' = [g \in DOMAIN ms |-> << >>]
    /\ UNCHANGED <<finish_runs, streak, ncalls>>

\* _setup_local
SetupLocal(groups, steps, ms, bin, reinit) ==
    IF ~reinit
    THEN /\ InitRaised("NotImplementedError")
         /\ UNCHANGED <<fsVars, wandb_run>>
    ELSE /\ dirs' = {"run", "temp", "files", "artifacts", "metrics"}
         /\ root_files' = {"config.json", "metadata.json"}
         /\ csv' = SetupCsv(groups, ms, steps)
         /\ files_dir' = EmptyDict
         /\ summary_json' = None
         /\ UNCHANGED wandb_run
         /\ IF FirstEmptyGroup(groups, ms) # 0
            THEN /\ status_txt' = None
                 /\ InitRaised("ValueError")
            ELSE /\ status_txt' = Some("started")
                 /\ InitReturned("local", groups, steps, ms, bin,
                                 Some([g \in SeqToSet(groups) |-> "open"]))

\* _setup_wandb
SetupWandb(groups, steps, ms, bin) ==
    LET all == AllMetrics(groups, ms, 1)
        k == FirstBadUnpack(all)
    IN /\ dirs' = {"temp", "files", "artifacts"}
       /\ files_dir' = EmptyDict
       /\ UNCHANGED <<root_files, status_txt, summary_json, csv>>
       /\ IF k # 0
          THEN /\ wandb_run' = [NoRun EXCEPT !.active = TRUE,
                                             !.defined = {all[i] : i \in 1..(k - 1)}]
               /\ InitRaised("ValueError")
          ELSE /\ wandb_run' = [NoRun EXCEPT !.active = TRUE, !.defined = SeqToSet(all)]
               /\ InitReturned("wandb", groups, steps, ms, bin, None)

\* Logger(...)
Construct ==
    /\ phase = "new"
    /\ \E lm \in LogModes, wm \in WandbModes, metrics_in \in MetricsInputs,
          bin_in \in BinSizeInputs, reinit \in BOOLEAN,
          is_sub \in BOOLEAN, has_sub \in BOOLEAN :
        \E ms \in InitMetrics(metrics_in) :
          LET groups == InitMetricGroups(metrics_in)
              steps == InitStepMetrics(metrics_in)
              err == InitArgError(lm, wm, is_sub, has_sub, bin_in, DOMAIN metrics_in)
              bin == InitBinSize(bin_in, DOMAIN metrics_in)
          IN IF err # "ok"
             THEN /\ InitRaised(err)
                  /\ UNCHANGED <<fsVars, wandb_run>>
             ELSE IF lm = "disabled"
             THEN /\ InitReturned(lm, groups, steps, ms, bin, None)
                  /\ UNCHANGED <<fsVars, wandb_run>>
             ELSE IF lm = "local"
             THEN SetupLocal(groups, steps, ms, bin, reinit)
             ELSE SetupWandb(groups, steps, ms, bin)

(***************************************************************************)
(* Logging.                                                                *)
(***************************************************************************)
\* utils.copy_to_dict: every key of from_dict set in to_dict, the rest kept.
CopyToDict(from_dict, to_dict) ==
    [k \in DOMAIN to_dict \cup DOMAIN from_dict |->
        IF k \in DOMAIN from_dict THEN Some(from_dict[k]) ELSE to_dict[k]]

\* _to_row: the exception it raises.
ToRowErr(d, group, check_keys) ==
    IF step_metrics[group] \notin DOMAIN d THEN "ValueError"
    ELSE IF check_keys /\ (DOMAIN d \ SeqToSet(metrics[group])) = {} THEN "ValueError"
    ELSE "ok"

\* Field with the default of the defaultdict lost: str(None) for a key d lacks.
Field_NoDefault(d, col) == IF col \in DOMAIN d THEN Str(d[col]) ELSE "None"

\* _to_row: str(dd[col]), dd a defaultdict giving "" for a key d lacks.
Field(d, col) == IF col \in DOMAIN d THEN Str(d[col]) ELSE ""

\* ToRow writing every key of d, the unregistered ones after the metrics.
ToRow_EveryKey(d, group) ==
    LET extras == (DOMAIN d \ {step_metrics[group]}) \ SeqToSet(metrics[group])
        tail == CHOOSE t \in ListsOfSet(extras) : TRUE
    IN <<Str(d[step_metrics[group]])>>
        \o [i \in 1..Len(metrics[group]) |->
               IF metrics[group][i] \in DOMAIN d THEN Str(d[metrics[group][i]]) ELSE ""]
        \o [i \in 1..Len(tail) |-> Str(d[tail[i]])]

\* _to_row: the row, the step metric's value and then one field per metric.
ToRow(d, group) ==
    <<Str(d[step_metrics[group]])>>
        \o [i \in 1..Len(metrics[group]) |-> Field(d, metrics[group][i])]

\* log: whether the group is one of self._metrics.
GroupKnown(group) == group \in DOMAIN metrics

\* log, check_keys: the keys of d that are neither the step metric nor a metric.
InvalidKeys(d, group) ==
    (DOMAIN d \ {step_metrics[group]}) \ SeqToSet(metrics[group])

\* _log_local: the exception it raises; the write fails on a closed file.
LogLocalErr(d, group, check_keys) ==
    IF ~GroupKnown(group) THEN "ValueError"
    ELSE IF ToRowErr(d, group, check_keys) # "ok" THEN ToRowErr(d, group, check_keys)
    ELSE IF metrics_files[1][group] # "open" THEN "ValueError"
    ELSE "ok"

\* _log_local: self._summary when it returns or raises.
LogLocalSummary(d, group, sm) ==
    IF ~GroupKnown(group) THEN sm
    ELSE Some([sm[1] EXCEPT ![group] = CopyToDict(d, @)])

\* _log_local: the metrics files when it returns or raises.
LogLocalCsv(d, group, check_keys) ==
    IF LogLocalErr(d, group, check_keys) # "ok" THEN csv
    ELSE [csv EXCEPT ![group] = Append(@, ToRow(d, group))]

\* log: whether the call goes on to the backend.
LogPasses(d, group, check_keys) ==
    /\ GroupKnown(group)
    /\ ~(check_keys /\ InvalidKeys(d, group) # {})

\* LogErr returning quietly for a group that is not registered.
LogErr_QuietGroup(d, group, check_keys) ==
    IF ~is_enabled THEN "ok"
    ELSE IF ~GroupKnown(group) THEN "ok"
    ELSE IF ~LogPasses(d, group, check_keys) THEN "ValueError"
    ELSE IF log_mode = "local" THEN LogLocalErr(d, group, FALSE)
    ELSE IF log_mode = "wandb" THEN "ok"
    ELSE "ValueError"

\* LogErr without the "if self._is_enabled" around the body of log.
LogErr_NoEnabledCheck(d, group, check_keys) ==
    IF ~LogPasses(d, group, check_keys) THEN "ValueError"
    ELSE IF log_mode = "local" THEN LogLocalErr(d, group, FALSE)
    ELSE IF log_mode = "wandb" THEN "ok"
    ELSE "ValueError"

\* log: the exception it raises.
LogErr(d, group, check_keys) ==
    IF ~is_enabled THEN "ok"
    ELSE IF ~LogPasses(d, group, check_keys) THEN "ValueError"
    ELSE IF log_mode = "local" THEN LogLocalErr(d, group, FALSE)
    ELSE IF log_mode = "wandb" THEN "ok"
    ELSE "ValueError"

\* log: whether it calls _log_local.
LogReachesLocal(d, group, check_keys) ==
    is_enabled /\ LogPasses(d, group, check_keys) /\ log_mode = "local"

\* log: whether it calls _log_wandb.
LogReachesWandb(d, group, check_keys) ==
    is_enabled /\ LogPasses(d, group, check_keys) /\ log_mode = "wandb"

\* _log_wandb: the session after wandb_run.log(d).
LogWandb(run) == [run EXCEPT !.logged = @ + 1]

\* What the observer keeps of a record: whether it holds the group's step
\* metric, and whether it holds a key that is no metric of the group.
HasStep(d, group) == group \in DOMAIN metrics /\ step_metrics[group] \in DOMAIN d
HasExtra(d, group) ==
    /\ group \in DOMAIN metrics
    /\ \E k \in DOMAIN d : k # step_metrics[group] /\ k \notin SeqToSet(metrics[group])

\* logger.log(d, group, check_keys)
Log ==
    /\ phase = "live"
    /\ ncalls < MaxCalls
    /\ \E d \in Records, group \in GroupNames, check_keys \in BOOLEAN :
        LET err == LogErr(d, group, check_keys)
            local == LogReachesLocal(d, group, check_keys)
        IN /\ summary' = IF local THEN LogLocalSummary(d, group, summary) ELSE summary
           /\ csv' = IF local THEN LogLocalCsv(d, group, FALSE) ELSE csv
           /\ wandb_run' = IF LogReachesWandb(d, group, check_keys)
                           THEN LogWandb(wandb_run) ELSE wandb_run
           /\ last' = Call("log", err, group, check_keys,
                           HasStep(d, group), HasExtra(d, group), "")
           /\ logged' = IF local /\ err = "ok"
                        THEN [logged EXCEPT ![group] = Append(@, d)] ELSE logged
    /\ streak' = NoStreak
    /\ ncalls' = ncalls + 1
    /\ UNCHANGED <<phase, log_mode, is_enabled, metric_groups, step_metrics, metrics,
                   bin_size, metric_roll_avg, metric_n, is_finished, metrics_files,
                   dirs, root_files, status_txt, summary_json, files_dir, finish_runs>>

\* logger.log_summary(): the exception it raises.
LogSummaryErr ==
    IF is_enabled /\ log_mode = "local" /\ summary = None THEN "ValueError" ELSE "ok"

\* logger.log_summary(): summary.json when it returns or raises.
LogSummaryJson(sm) ==
    IF is_enabled /\ log_mode = "local" /\ sm # None THEN Some(sm[1]) ELSE summary_json

\* logger.log_summary()
LogSummary ==
    /\ phase = "live"
    /\ ncalls < MaxCalls
    /\ summary_json' = LogSummaryJson(summary)
    /\ last' = Call("log_summary", LogSummaryErr, "", FALSE, FALSE, FALSE, "")
    /\ streak' = NoStreak
    /\ ncalls' = ncalls + 1
    /\ UNCHANGED <<phase, objVars, dirs, root_files, status_txt, csv, files_dir,
                   wandb_run, logged, finish_runs>>

\* _log_file_local: the exception it raises (shutil.copy of a missing file).
LogFileLocalErr(path) ==
    IF Basename(path) \in DOMAIN files_dir THEN "ok"
    ELSE IF path \notin DOMAIN SourceFiles THEN "FileNotFoundError"
    ELSE "ok"

\* LogFileLocal copying over a file of the same name that is already there.
LogFileLocal_Overwrite(path) ==
    IF path \notin DOMAIN SourceFiles THEN files_dir
    ELSE (Basename(path) :> SourceFiles[path]) @@ files_dir

\* _log_file_local: the files directory when it returns or raises.
LogFileLocal(path) ==
    IF Basename(path) \in DOMAIN files_dir \/ path \notin DOMAIN SourceFiles
    THEN files_dir
    ELSE (Basename(path) :> SourceFiles[path]) @@ files_dir

\* _log_file_wandb: the exception it raises.
LogFileWandbErr(path) ==
    IF path \notin DOMAIN SourceFiles THEN "FileNotFoundError" ELSE "ok"

\* _log_file_wandb: the files directory when it returns or raises.
LogFileWandb(path) ==
    IF path \notin DOMAIN SourceFiles THEN files_dir
    ELSE (Basename(path) :> SourceFiles[path]) @@ files_dir

\* logger.log_file(file_path)
LogFile ==
    /\ phase = "live"
    /\ ncalls < MaxCalls
    /\ \E path \in FilePaths :
        /\ files_dir' = IF ~is_enabled THEN files_dir
                        ELSE IF log_mode = "local" THEN LogFileLocal(path)
                        ELSE IF log_mode = "wandb" THEN LogFileWandb(path)
                        ELSE files_dir
        /\ wandb_run' = IF is_enabled /\ log_mode = "wandb" /\ LogFileWandbErr(path) = "ok"
                        THEN [wandb_run EXCEPT !.saved = @ \cup {Basename(path)}]
                        ELSE wandb_run
        /\ last' = Call("log_file",
                        IF ~is_enabled THEN "ok"
                        ELSE IF log_mode = "local" THEN LogFileLocalErr(path)
                        ELSE IF log_mode = "wandb" THEN LogFileWandbErr(path)
                        ELSE "ok",
                        "", FALSE, FALSE, FALSE, path)
    /\ streak' = NoStreak
    /\ ncalls' = ncalls + 1
    /\ UNCHANGED <<phase, objVars, dirs, root_files, status_txt, summary_json, csv,
                   logged, finish_runs>>

(***************************************************************************)
(* Binned logging.  A running average is the fraction <<num, den>>.        *)
(***************************************************************************)
\* log_binned: "self._metric_n[group] + 1"; int + int, and a dict + int raises.
MetricNPlusOneErr(n) == IF n.kind = "int" THEN "ok" ELSE "TypeError"
MetricNPlusOne(n) == n.val + 1

\* log_binned: new_avg = curr_avg * (n-1)/n + val/n
NewAvg(curr_avg, n, val) ==
    <<curr_avg[1] * (n - 1) + val * curr_avg[2], curr_avg[2] * n>>

\* log_binned: the exception its own checks raise, "ok" when it goes on to average.
LogBinnedCheck(d, group) ==
    IF bin_size = None THEN "ValueError"
    ELSE IF ~GroupKnown(group) THEN "ValueError"
    ELSE IF DOMAIN d # SeqToSet(metrics[group]) THEN "ValueError"
    ELSE MetricNPlusOneErr(metric_n[1][group])

\* log_binned: self._metric_roll_avg[group] after the loop over d.
LogBinnedAvg(d, group) ==
    [m \in DOMAIN metric_roll_avg[1][group] |->
        IF m \in DOMAIN d
        THEN NewAvg(metric_roll_avg[1][group][m],
                    MetricNPlusOne(metric_n[1][group]), d[m])
        ELSE metric_roll_avg[1][group][m]]

\* log_binned: whether the bin is full, "n == group_bin_size".
BinFull(group) == MetricNPlusOne(metric_n[1][group]) = bin_size[1][group]

\* log_binned: whether the call passed the checks that come before the counter.
BinnedAccepted(d, group) ==
    /\ is_enabled
    /\ bin_size # None
    /\ GroupKnown(group)
    /\ DOMAIN d = SeqToSet(metrics[group])

\* The observer's run of equal log_binned calls after one more of them.
StreakAfter(d, group, flushed) ==
    IF ~BinnedAccepted(d, group) THEN NoStreak
    ELSE IF streak.n > 0 /\ streak.group = group /\ streak.d = d
    THEN [streak EXCEPT !.n = @ + 1, !.logs = @ + (IF flushed THEN 1 ELSE 0)]
    ELSE [group |-> group, d |-> d, n |-> 1, logs |-> IF flushed THEN 1 ELSE 0]

\* logger.log_binned(d, group)
LogBinned ==
    /\ phase = "live"
    /\ \E d \in BinnedRecords, group \in GroupNames :
        LET check == IF is_enabled THEN LogBinnedCheck(d, group) ELSE "ok"
            averages == is_enabled /\ check = "ok"
            flushes == averages /\ BinFull(group)
            avg_d == LogBinnedAvg(d, group)
        IN /\ StreakAfter(d, group, flushes).n <= MaxStreak
           /\ metric_roll_avg' = IF averages
                                 THEN Some([metric_roll_avg[1] EXCEPT ![group] = avg_d])
                                 ELSE metric_roll_avg
           /\ metric_n' = IF flushes
                          THEN Some([metric_n[1] EXCEPT
                                        ![group] = [kind |-> "int", items |-> EmptyDict,
                                                    val |-> 0]])
                          ELSE metric_n
           /\ summary' = IF flushes /\ LogReachesLocal(avg_d, group, FALSE)
                         THEN LogLocalSummary(avg_d, group, summary) ELSE summary
           /\ csv' = IF flushes /\ LogReachesLocal(avg_d, group, FALSE)
                     THEN LogLocalCsv(avg_d, group, FALSE) ELSE csv
           /\ wandb_run' = IF flushes /\ LogReachesWandb(avg_d, group, FALSE)
                           THEN LogWandb(wandb_run) ELSE wandb_run
           /\ logged' = IF flushes /\ LogReachesLocal(avg_d, group, FALSE)
                            /\ LogErr(avg_d, group, FALSE) = "ok"
                        THEN [logged EXCEPT ![group] = Append(@, avg_d)] ELSE logged
           /\ last' = Call("log_binned",
                           IF ~is_enabled THEN "ok"
                           ELSE IF check # "ok" THEN check
                           ELSE IF flushes THEN LogErr(avg_d, group, FALSE)
                           ELSE "ok",
                           group, FALSE, FALSE, FALSE, "")
           /\ streak' = StreakAfter(d, group, flushes)
    /\ UNCHANGED <<phase, log_mode, is_enabled, metric_groups, step_metrics, metrics,
                   bin_size, is_finished, metrics_files,
                   dirs, root_files, status_txt, summary_json, files_dir,
                   finish_runs, ncalls>>

(***************************************************************************)
(* Finish.                                                                 *)
(***************************************************************************)
\* finish: the exception it raises.
FinishErr ==
    IF ~is_enabled THEN "ok"
    ELSE IF is_finished THEN "RuntimeError"
    ELSE IF log_mode = "local" THEN LogSummaryErr
    ELSE "ok"

\* finish: whether it runs the steps of its mode.
FinishRuns == is_enabled /\ ~is_finished

\* FinishCloseFiles leaving the handles as they are.
FinishCloseFiles_Skip(files) == files

\* finish, local mode: the handles after "for curr_file in ...: curr_file.close()".
FinishCloseFiles(files) == Some([g \in DOMAIN files[1] |-> "closed"])

\* finish: self._is_finished when it returns; no statement of finish assigns it.
FinishIsFinished(finished) == finished

\* logger.finish()
Finish ==
    /\ phase = "live"
    /\ ncalls < MaxCalls
    /\ LET local == FinishRuns /\ log_mode = "local"
           remote == FinishRuns /\ log_mode = "wandb"
       IN /\ metrics_files' = IF local THEN FinishCloseFiles(metrics_files)
                              ELSE metrics_files
          /\ summary_json' = IF local THEN LogSummaryJson(summary) ELSE summary_json
          /\ status_txt' = IF local /\ LogSummaryErr = "ok" THEN Some("finished")
                           ELSE status_txt
          /\ wandb_run' = IF remote THEN [wandb_run EXCEPT !.finished = TRUE]
                          ELSE wandb_run
          /\ is_finished' = IF FinishRuns /\ FinishErr = "ok"
                            THEN FinishIsFinished(is_finished) ELSE is_finished
          /\ finish_runs' = IF FinishRuns /\ FinishErr = "ok"
                            THEN finish_runs + 1 ELSE finish_runs
    /\ last' = Call("finish", FinishErr, "", FALSE, FALSE, FALSE, "")
    /\ streak' = NoStreak
    /\ ncalls' = ncalls + 1
    /\ UNCHANGED <<phase, log_mode, is_enabled, metric_groups, step_metrics, metrics,
                   summary, bin_size, metric_roll_avg, metric_n,
                   dirs, root_files, csv, files_dir, logged>>

Next ==
    \/ Construct
    \/ Log
    \/ LogBinned
    \/ LogSummary
    \/ LogFile
    \/ Finish

Spec == Init /\ [][Next]_vars

(***************************************************************************)
(* Properties.                                                             *)
(***************************************************************************)
Live == phase = "live"
LocalLive == phase = "live" /\ log_mode = "local"

\* The value a record gives a column of a metrics file, as text.
Cell(rec, col) == IF col \in DOMAIN rec THEN ToString(rec[col]) ELSE ""

\* The last record a local log call on the group returned for.
LastLogged(lg, group) == lg[group][Len(lg[group])]

\* C1: on an enabled logger the first finish() runs the finish steps and every
\* later finish() raises instead, so the steps never run to their end twice.
C1_FinishOnce == (Live /\ is_enabled) => finish_runs <= 1

\* C2: on an enabled logger a log call naming a group that is not registered
\* raises ValueError and leaves every summary and every metrics file as it was.
C2_UnknownGroup ==
    [][(Live /\ is_enabled /\ last'.op = "log" /\ last'.group \notin DOMAIN metrics)
        => (last'.err = "ValueError" /\ summary' = summary /\ csv' = csv)]_vars

C2_Witness ==
    /\ LocalLive
    /\ last.op = "log" /\ last.group \notin DOMAIN metrics /\ last.err = "ValueError"
    /\ \E g \in DOMAIN csv : Len(csv[g]) > 1

\* C3: in local mode, before finish, a log call whose record holds the step
\* metric and a key that is no metric of the group raises ValueError and writes
\* nothing with check_keys, and without check_keys returns having appended one
\* row: the step metric's value, then the value or "" of each registered
\* metric, and no value of an unregistered key.
C3_CheckKeys ==
    [][(LocalLive /\ last'.op = "log" /\ last'.has_step /\ last'.extra
            /\ metrics_files[1][last'.group] = "open")
        => IF last'.check_keys
           THEN last'.err = "ValueError" /\ csv' = csv
           ELSE LET g == last'.group
                    rec == LastLogged(logged', g)
                    row == csv'[g][Len(csv'[g])]
                IN /\ last'.err = "ok"
                   /\ logged' = [logged EXCEPT ![g] = Append(@, rec)]
                   /\ csv' = [csv EXCEPT ![g] = Append(@, row)]
                   /\ Len(row) = 1 + Len(metrics[g])
                   /\ row[1] = ToString(rec[step_metrics[g]])
                   /\ \A i \in 1..Len(metrics[g]) : row[i + 1] = Cell(rec, metrics[g][i])
                   /\ \A k \in DOMAIN rec :
                        (k # step_metrics[g] /\ k \notin SeqToSet(metrics[g]))
                            => ToString(rec[k]) \notin SeqToSet(row)]_vars

C3_Witness ==
    /\ LocalLive
    /\ last.op = "log" /\ last.has_step /\ last.extra /\ ~last.check_keys
    /\ last.err = "ok"
    /\ Len(csv[last.group]) = 3

\* C4: in local mode the file of a group holds the header and then one row per
\* log call that returned, in call order; the field of row i under a column of
\* the header is the value record i gave for that column, "" when it gave none.
C4_CsvRoundTrip ==
    LocalLive =>
        \A g \in DOMAIN csv :
            /\ Len(csv[g]) = Len(logged[g]) + 1
            /\ csv[g][1] = <<step_metrics[g]>> \o metrics[g]
            /\ \A i \in 1..Len(logged[g]) :
                /\ Len(csv[g][i + 1]) = Len(csv[g][1])
                /\ \A j \in 1..Len(csv[g][1]) :
                    csv[g][i + 1][j] = Cell(logged[g][i], csv[g][1][j])

C4_Witness ==
    /\ LocalLive
    /\ \E g \in DOMAIN csv :
        /\ Len(csv[g]) = 3
        /\ Len(csv[g][1]) = 3
        /\ csv[g][2] # csv[g][3]
        /\ \E j \in 1..3 : csv[g][3][j] = ""

\* The value the last record logged for the group that held the key gave it.
RECURSIVE LatestValue(_, _, _)
LatestValue(recs, k, i) ==
    IF i = 0 THEN None
    ELSE IF k \in DOMAIN recs[i] THEN Some(recs[i][k])
    ELSE LatestValue(recs, k, i - 1)

\* C5: in local mode the summary of a group has the group's metrics and its
\* step metric as keys, and under each key the value of the latest log call
\* on the group that returned and held the key, None when there is none.
C5_SummaryLatest ==
    LocalLive =>
        \A g \in DOMAIN metrics :
            /\ DOMAIN summary[1][g] = SeqToSet(metrics[g]) \cup {step_metrics[g]}
            /\ \A k \in DOMAIN summary[1][g] :
                summary[1][g][k] = LatestValue(logged[g], k, Len(logged[g]))

\* C6: with a bin size of 3 for a group, three log_binned calls in a row giving
\* every metric of the group the value v make one log call, after which the
\* counter of the group is 0 and its running averages are v.
C6_BinOfThree ==
    (Live /\ is_enabled /\ streak.n = 3 /\ DOMAIN streak.d # {}
        /\ bin_size[1][streak.group] = 3) =>
        /\ streak.logs = 1
        /\ metric_n[1][streak.group].kind = "int"
        /\ metric_n[1][streak.group].val = 0
        /\ \A m \in DOMAIN streak.d :
            LET avg == metric_roll_avg[1][streak.group][m]
            IN avg[1] = streak.d[m] * avg[2]

\* C7: a disabled logger is constructed without a directory, a file or a remote
\* session being made, and every call on it returns without an exception and
\* leaves its fields, the file system and the remote session as they were.
C7_DisabledNoOp ==
    [][(phase' = "live" /\ log_mode' = "disabled")
        => /\ last'.err = "ok"
           /\ dirs' = {} /\ root_files' = {} /\ files_dir' = EmptyDict
           /\ csv' = EmptyDict /\ status_txt' = None /\ summary_json' = None
           /\ wandb_run' = NoRun
           /\ (phase = "live" => UNCHANGED objVars)]_vars

C7_Witness ==
    /\ Live /\ log_mode = "disabled"
    /\ last.op = "finish"
    /\ ncalls = 2
    /\ \E g \in DOMAIN metrics : Len(metrics[g]) > 0

\* C8: no logger, whatever its mode, has a group without a metric.
C8_NoEmptyGroup == Live => \A g \in DOMAIN metrics : Len(metrics[g]) > 0

\* C9: in local mode status.txt holds "started" until finish has run, and holds
\* "finished" only when finish has closed every metrics file and written
\* summary.json.
C9_Status ==
    LocalLive =>
        /\ status_txt \in {Some("started"), Some("finished")}
        /\ finish_runs = 0 => status_txt = Some("started")
        /\ status_txt = Some("finished") =>
            /\ finish_runs >= 1
            /\ summary_json # None
            /\ \A g \in DOMAIN metrics_files[1] : metrics_files[1][g] = "closed"

C9_Witness ==
    /\ LocalLive
    /\ status_txt = Some("finished")
    /\ \E g \in DOMAIN csv : Len(csv[g]) > 1

\* C10: after finish has returned on a local logger every log and log_binned
\* call raises and leaves the summary, the metrics files and status.txt as
\* they were.
C10_UnusableAfterFinish ==
    [][(LocalLive /\ finish_runs >= 1 /\ last'.op \in {"log", "log_binned"})
        => /\ last'.err # "ok"
           /\ summary' = summary
           /\ csv' = csv
           /\ status_txt' = status_txt]_vars

\* C11: in local mode log_file copies an existing file into the files directory
\* under its basename when no file of that name is there, and when one is
\* there it returns without an exception and leaves the directory as it was.
C11_LogFileOnce ==
    [][(LocalLive /\ last'.op = "log_file")
        => LET name == Basename(last'.path)
           IN IF name \in DOMAIN files_dir
              THEN last'.err = "ok" /\ files_dir' = files_dir
              ELSE last'.path \in DOMAIN SourceFiles
                    => /\ last'.err = "ok"
                       /\ DOMAIN files_dir' = DOMAIN files_dir \cup {name}
                       /\ files_dir'[name] = SourceFiles[last'.path]
                       /\ \A f \in DOMAIN files_dir : files_dir'[f] = files_dir[f]]_vars

C11_Witness ==
    /\ LocalLive
    /\ last.op = "log_file" /\ last.err = "ok"
    /\ ncalls = 2
    /\ Basename(last.path) \in DOMAIN files_dir
    /\ files_dir[Basename(last.path)] # SourceFiles[last.path]

\* Whether the log_binned call of this step goes on with the observer's run.
StreakGoesOn == streak.n > 0 /\ streak'.n = streak.n + 1

\* C12: for a group with bin size b the running count is a number n with
\* 0 <= n < b; every log_binned call that passes the checks takes it to
\* (n + 1) mod b and calls log exactly when n + 1 = b, so that k such calls
\* make floor(k / b) log calls and leave the count k mod b.
C12_BinCounter ==
    [][(Live /\ is_enabled /\ last'.op = "log_binned" /\ streak'.n > 0)
        => LET g == streak'.group
               b == bin_size[1][g]
               before == IF StreakGoesOn THEN streak.logs ELSE 0
           IN /\ metric_n[1][g].kind = "int"
              /\ metric_n'[1][g].kind = "int"
              /\ metric_n'[1][g].val = (metric_n[1][g].val + 1) % b
              /\ streak'.logs - before = (IF metric_n[1][g].val + 1 = b THEN 1 ELSE 0)]_vars

\* C13: in local mode a log call that reaches the backend and raises because
\* its record lacks the group's step metric leaves the group's summary as it
\* was and appends nothing to the group's metrics file.
C13_MissingStepAtomic ==
    [][(LocalLive /\ last'.op = "log" /\ last'.group \in DOMAIN metrics
            /\ ~last'.has_step /\ ~(last'.check_keys /\ last'.extra))
        => /\ last'.err = "ValueError"
           /\ summary'[1][last'.group] = summary[1][last'.group]
           /\ csv'[last'.group] = csv[last'.group]]_vars

\* C14: in local mode the log_binned call that fills the bin of a group, the
\* last of bin_size calls in a row with a record log_binned accepts, returns
\* without an exception, appends exactly one row to the metrics file of the
\* group and leaves the mean of every metric in the summary of the group.
C14_FlushSucceeds ==
    [][(LocalLive /\ last'.op = "log_binned" /\ streak'.n > 0
            /\ DOMAIN streak'.d # {}
            /\ streak'.n = bin_size[1][streak'.group])
        => LET g == streak'.group
           IN /\ last'.err = "ok"
              /\ Len(csv'[g]) = Len(csv[g]) + 1
              /\ \A m \in DOMAIN streak'.d :
                    /\ summary'[1][g][m] # None
                    /\ summary'[1][g][m][1][1]
                        = streak'.d[m] * summary'[1][g][m][1][2]]_vars

====
